---- MODULE Spec2Model ----
(***************************************************************************)
(* Model of streamlit_app.py: one script run (an "interaction cycle") of   *)
(* the sales dashboard.  A run executes the four tabs in order; any        *)
(* uncaught exception ends the run (pc = "error", failed_in names the     *)
(* tab).  Each run starts from a fresh script namespace, so the tables of  *)
(* an earlier run are gone.                                                *)
(*                                                                         *)
(* Real numbers (rates, predictions, means) are exact fractions            *)
(* [num, den] in lowest terms with den > 0.  A Timestamp is [date, time]   *)
(* with date = yyyymmdd and time = seconds since midnight.  A DataFrame    *)
(* is [columns, index, rows]: the column names, the index labels, and one  *)
(* record per row.                                                         *)
(***************************************************************************)
EXTENDS Integers, Sequences, FiniteSets, TLC

VARIABLES pc, error, failed_in,
          num_leads, num_appointments, num_closings,
          average_revenue_per_closing, uploaded_file,
          historical_data, metrics, dashboard,
          date_range, filtered_data,
          forecasted_closings, forecasted_revenue,
          excel_data, csv, preview

vars == <<pc, error, failed_in, num_leads, num_appointments, num_closings,
          average_revenue_per_closing, uploaded_file,
          historical_data, metrics, dashboard, date_range, filtered_data,
          forecasted_closings, forecasted_revenue, excel_data, csv, preview>>

(***************************************************************************)
(* Bounds of the input domains.                                            *)
(***************************************************************************)
MaxRows == 2
MaxLeads == 2
MaxAppointments == 1
MaxClosings == 1

(***************************************************************************)
(* Exact fractions.                                                        *)
(***************************************************************************)
Abs(n) == IF n < 0 THEN -n ELSE n

RECURSIVE GCD(_, _)
GCD(a, b) == IF b = 0 THEN a ELSE GCD(b, a % b)

Frac(n, d) ==
    LET s == IF d < 0 THEN -1 ELSE 1
        g == GCD(Abs(n), Abs(d))
    IN  [num |-> (s * n) \div g, den |-> (s * d) \div g]

Zero == [num |-> 0, den |-> 1]

FracMul(f, k) == Frac(f.num * k, f.den)

(***************************************************************************)
(* Timestamps and their formatting.                                        *)
(***************************************************************************)
Year(d) == d \div 10000
Month(d) == (d \div 100) % 100

MonthAbbr == <<"Jan", "Feb", "Mar", "Apr", "May", "Jun",
               "Jul", "Aug", "Sep", "Oct", "Nov", "Dec">>

month_name == <<"January", "February", "March", "April", "May", "June",
                "July", "August", "September", "October", "November",
                "December">>

\* Timestamp.strftime('%b'): the abbreviated month name.
strftime_b(ts) == MonthAbbr[Month(ts.date)]

\* Timestamp.strftime('%b %y'): abbreviated month name and two-digit year.
strftime_b_y(ts) == <<MonthAbbr[Month(ts.date)], Year(ts.date) % 100>>

\* pd.Timestamp('now'): the wall clock of the run, mid-day on 1 June 2024.
Now == [date |-> 20240601, time |-> 43200]

\* The month cells an uploaded file may hold, and what pd.to_datetime makes
\* of the ones it can parse.
MonthCells == {"2023-05-20", "2024-01-15", "not a date"}

ParsedDate == [c \in {"2023-05-20", "2024-01-15"} |->
                 IF c = "2023-05-20" THEN 20230520 ELSE 20240115]

Parseable(c) == c \in DOMAIN ParsedDate

to_datetime(c) == [date |-> ParsedDate[c], time |-> 0]

(***************************************************************************)
(* DataFrames.                                                             *)
(***************************************************************************)
EmptyFrame == [columns |-> <<>>, index |-> <<>>, rows |-> <<>>]

empty(df) == Len(df.rows) = 0 \/ Len(df.columns) = 0

RangeIndex(n) == [i \in 1..n |-> i - 1]

RECURSIVE SumCol(_, _)
SumCol(rows, col) ==
    IF rows = <<>> THEN 0
    ELSE rows[1][col] + SumCol(Tail(rows), col)

ColMax(rows, col) ==
    CHOOSE m \in {rows[i][col] : i \in 1..Len(rows)} :
        \A i \in 1..Len(rows) : rows[i][col] <= m

ColMin(rows, col) ==
    CHOOSE m \in {rows[i][col] : i \in 1..Len(rows)} :
        \A i \in 1..Len(rows) : rows[i][col] >= m

\* Position of the first row whose col equals v.
FirstPos(rows, col, v) ==
    CHOOSE i \in 1..Len(rows) :
        /\ rows[i][col] = v
        /\ \A j \in 1..(i - 1) : rows[j][col] # v

\* Position of the last row whose col equals v.
LastPos(rows, col, v) ==
    CHOOSE i \in 1..Len(rows) :
        /\ rows[i][col] = v
        /\ \A j \in (i + 1)..Len(rows) : rows[j][col] # v

\* idxmax taking the last extreme value instead of the first.
idxmax_last(df, col) == df.index[LastPos(df.rows, col, ColMax(df.rows, col))]

\* Series.idxmax / idxmin: index label of the first extreme value.
idxmax(df, col) == df.index[FirstPos(df.rows, col, ColMax(df.rows, col))]
idxmin(df, col) == df.index[FirstPos(df.rows, col, ColMin(df.rows, col))]

\* df.loc[label, col]
loc(df, label, col) ==
    df.rows[CHOOSE i \in 1..Len(df.index) : df.index[i] = label][col]

\* pd.concat([a, b], ignore_index=True) of two frames with equal columns.
concat(a, b) ==
    [columns |-> a.columns,
     index   |-> RangeIndex(Len(a.rows) + Len(b.rows)),
     rows    |-> a.rows \o b.rows]

Raise(e) == [exception |-> e]
Raised(v) == "exception" \in DOMAIN v

(***************************************************************************)
(* calculate_metrics                                                       *)
(***************************************************************************)
\* The rate without the factor 100.
rate_fraction(numerator, denominator) ==
    IF denominator > 0 THEN Frac(numerator, denominator) ELSE Zero

\* (numerator / denominator * 100) if denominator > 0 else 0
rate(numerator, denominator) ==
    IF denominator > 0 THEN Frac(numerator * 100, denominator) ELSE Zero

calculate_metrics(df) ==
    LET leads == SumCol(df.rows, "leads")
        appts == SumCol(df.rows, "appointments")
        clos  == SumCol(df.rows, "closings")
    IN  IF Len(df.rows) = 0
        THEN Raise("ValueError")      \* idxmax of an empty column
        ELSE ("Total Leads" :> leads)
          @@ ("Total Appointments" :> appts)
          @@ ("Total Closings" :> clos)
          @@ ("Lead to Appointment Rate" :>
                 rate(appts, leads))
          @@ ("Appointment to Close Rate" :>
                 rate(clos, appts))
          @@ ("Overall Close Rate" :>
                 rate(clos, leads))
          @@ ("Best Month (Closings)" :>
                 strftime_b_y(loc(df, idxmax(df, "closings"), "month")))
          @@ ("Worst Month (Closings)" :>
                 strftime_b_y(loc(df, idxmin(df, "closings"), "month")))

\* create_metrics_dashboard: the bundle it renders.
create_metrics_dashboard(df) == calculate_metrics(df)

(***************************************************************************)
(* Tab 1: manual input, upload, combination.                               *)
(***************************************************************************)
None == <<>>
Some(f) == <<f>>

\* The rows uploaded files are made of: two samples of the counts
\* (leads, appointments, closings) under each parseable month, and one row
\* whose month is no date.
FileCounts == {<<1, 0, 0>>, <<2, 0, 1>>}

FileRows == {[month |-> c, leads |-> k[1], appointments |-> k[2],
              closings |-> k[3]] :
                 c \in {m \in MonthCells : Parseable(m)}, k \in FileCounts}
            \cup {[month |-> "not a date", leads |-> 1, appointments |-> 0,
                   closings |-> 0]}

\* The values entered for the average revenue per closing.
Revenues == {0, 3}

Files == UNION {[1..n -> FileRows] : n \in 0..MaxRows}

TableColumns == <<"month", "leads", "appointments", "closings">>

\* pd.read_csv / pd.read_excel: both give the file's rows as a table.
read_file(f) ==
    [columns |-> TableColumns, index |-> RangeIndex(Len(f)), rows |-> f]

\* historical_data['month'] = pd.to_datetime(historical_data['month'])
AllParseable(df) == \A i \in 1..Len(df.rows) : Parseable(df.rows[i].month)

parse_months(df) ==
    [df EXCEPT !.rows = [i \in 1..Len(df.rows) |->
        [df.rows[i] EXCEPT !.month = to_datetime(df.rows[i].month)]]]

new_row(nl, na, nc) ==
    [columns |-> TableColumns,
     index   |-> RangeIndex(1),
     rows    |-> <<[month |-> Now, leads |-> nl, appointments |-> na,
                    closings |-> nc]>>]

\* The combination that keeps an uploaded table as it is.
combine_upload_only(df, nl, na, nc) ==
    IF ~empty(df) THEN df ELSE new_row(nl, na, nc)

\* Lines 202-220.
combine(df, nl, na, nc) ==
    IF ~empty(df) THEN concat(df, new_row(nl, na, nc))
    ELSE new_row(nl, na, nc)

NoMetrics == [unset |-> TRUE]
NoRange == <<>>
NoValue == [unset |-> TRUE]
NoExport == [unset |-> TRUE]

Locals ==
    /\ historical_data = EmptyFrame
    /\ metrics = NoMetrics
    /\ dashboard = NoMetrics
    /\ date_range = NoRange
    /\ filtered_data = EmptyFrame
    /\ forecasted_closings = NoValue
    /\ forecasted_revenue = NoValue
    /\ excel_data = NoExport
    /\ csv = NoExport
    /\ preview = EmptyFrame

Init ==
    /\ pc = "tab1"
    /\ error = "none"
    /\ failed_in = "none"
    /\ num_leads = 0
    /\ num_appointments = 0
    /\ num_closings = 0
    /\ average_revenue_per_closing = 0
    /\ uploaded_file = None
    /\ Locals

Tab1 ==
    /\ pc = "tab1"
    /\ \E nl \in 0..MaxLeads, na \in 0..MaxAppointments,
          nc \in 0..MaxClosings, rev \in Revenues,
          up \in {None} \cup {Some(f) : f \in Files} :
        /\ num_leads' = nl
        /\ num_appointments' = na
        /\ num_closings' = nc
        /\ average_revenue_per_closing' = rev
        /\ uploaded_file' = up
        /\ IF up # None /\ ~AllParseable(read_file(up[1]))
           THEN \* pd.to_datetime raises; the run ends at line 196
                /\ historical_data' = read_file(up[1])
                /\ error' = "ValueError"
                /\ failed_in' = "tab1"
                /\ pc' = "error"
                /\ UNCHANGED <<metrics, dashboard>>
           ELSE LET loaded == IF up = None THEN EmptyFrame
                              ELSE parse_months(read_file(up[1]))
                    hd == combine(loaded, nl, na, nc)
                IN  /\ historical_data' = hd
                    /\ metrics' = calculate_metrics(hd)
                    /\ dashboard' = create_metrics_dashboard(hd)
                    /\ error' = "none"
                    /\ failed_in' = "none"
                    /\ pc' = "tab2"
    /\ UNCHANGED <<date_range, filtered_data, forecasted_closings,
                   forecasted_revenue, excel_data, csv, preview>>

(***************************************************************************)
(* Tab 2: date filter, goals, metrics of the filtered table.               *)
(***************************************************************************)
\* The range the user may pick in the sidebar instead of the default: it
\* ends before the day of the run.
DateRanges == {<<20230101, 20240131>>}

MinDate(df) ==
    CHOOSE d \in {df.rows[i].month.date : i \in 1..Len(df.rows)} :
        \A i \in 1..Len(df.rows) : d <= df.rows[i].month.date

MaxDate(df) ==
    CHOOSE d \in {df.rows[i].month.date : i \in 1..Len(df.rows)} :
        \A i \in 1..Len(df.rows) : d >= df.rows[i].month.date

\* The default of st.sidebar.date_input: (min month, max month) as dates.
default_range(df) == <<MinDate(df), MaxDate(df)>>

\* historical_data.loc[mask]: the rows inside the range, with their labels.
filter_rows(df, dr) ==
    LET keep == SelectSeq([i \in 1..Len(df.rows) |-> i],
                          LAMBDA i : /\ df.rows[i].month.date >= dr[1]
                                     /\ df.rows[i].month.date <= dr[2])
    IN  [columns |-> df.columns,
         index   |-> [k \in 1..Len(keep) |-> df.index[keep[k]]],
         rows    |-> [k \in 1..Len(keep) |-> df.rows[keep[k]]]]

\* add_goals_tracking reads the last row (iloc[-1]) of each count column.
add_goals_tracking(df) ==
    IF Len(df.rows) = 0 THEN Raise("IndexError")
    ELSE [leads        |-> df.rows[Len(df.rows)].leads,
          appointments |-> df.rows[Len(df.rows)].appointments,
          closings     |-> df.rows[Len(df.rows)].closings]

\* The seasonality plot needs 12 filtered rows and changes no variable.
Tab2 ==
    /\ pc = "tab2"
    /\ IF ~empty(historical_data)
       THEN \E dr \in {default_range(historical_data)} \cup DateRanges :
              LET fd == filter_rows(historical_data, dr)
              IN  /\ date_range' = dr
                  /\ filtered_data' = fd
                  /\ IF Raised(add_goals_tracking(fd))
                     THEN /\ error' = add_goals_tracking(fd).exception
                          /\ failed_in' = "tab2"
                          /\ pc' = "error"
                          /\ UNCHANGED <<metrics, dashboard>>
                     ELSE IF Raised(calculate_metrics(fd))
                     THEN /\ error' = calculate_metrics(fd).exception
                          /\ failed_in' = "tab2"
                          /\ pc' = "error"
                          /\ UNCHANGED <<metrics, dashboard>>
                     ELSE /\ dashboard' = create_metrics_dashboard(fd)
                          /\ metrics' = calculate_metrics(fd)
                          /\ pc' = "tab3"
                          /\ UNCHANGED <<error, failed_in>>
       ELSE /\ pc' = "tab3"
            /\ UNCHANGED <<date_range, filtered_data, metrics, dashboard,
                           error, failed_in>>
    /\ UNCHANGED <<num_leads, num_appointments, num_closings,
                   average_revenue_per_closing, uploaded_file,
                   historical_data, forecasted_closings, forecasted_revenue,
                   excel_data, csv, preview>>

(***************************************************************************)
(* Tab 3: least-squares fit of closings on (leads, appointments) with an   *)
(* intercept, and the prediction at the manual inputs.                     *)
(***************************************************************************)
RECURSIVE SumProd(_, _, _)
SumProd(rows, c1, c2) ==
    IF rows = <<>> THEN 0
    ELSE rows[1][c1] * rows[1][c2] + SumProd(Tail(rows), c1, c2)

\* LinearRegression().fit(x, y).predict([[q1, q2]])[0].  The centred normal
\* equations are solved exactly; when they are singular the least-squares
\* solution of minimum norm is taken, as the lstsq solver does.
predict(df, q1, q2) ==
    LET r   == df.rows
        N   == Len(r)
        S1  == SumCol(r, "leads")
        S2  == SumCol(r, "appointments")
        Sy  == SumCol(r, "closings")
        A   == N * SumProd(r, "leads", "leads") - S1 * S1
        B   == N * SumProd(r, "leads", "appointments") - S1 * S2
        C   == N * SumProd(r, "appointments", "appointments") - S2 * S2
        D1  == N * SumProd(r, "leads", "closings") - S1 * Sy
        D2  == N * SumProd(r, "appointments", "closings") - S2 * Sy
        det == A * C - B * B
        K   == IF det # 0 THEN det
               ELSE IF A + C # 0 THEN (A + C) * (A + C) ELSE 1
        c1  == IF det # 0 THEN C * D1 - B * D2
               ELSE IF A + C # 0 THEN A * D1 + B * D2 ELSE 0
        c2  == IF det # 0 THEN A * D2 - B * D1
               ELSE IF A + C # 0 THEN B * D1 + C * D2 ELSE 0
    IN  Frac(Sy * K + c1 * (N * q1 - S1) + c2 * (N * q2 - S2), N * K)

\* The prediction passed on as it is.
unclamped(p) == p

\* max(0, prediction)
clamp(p) == IF p.num > 0 THEN p ELSE Zero

\* The error statistics (mae, rmse, r2) are displayed and stored nowhere.
Tab3 ==
    /\ pc = "tab3"
    /\ IF ~empty(historical_data)
       THEN LET fc == clamp(predict(historical_data, num_leads,
                                    num_appointments))
            IN  /\ forecasted_closings' = fc
                /\ forecasted_revenue' =
                       FracMul(fc, average_revenue_per_closing)
       ELSE UNCHANGED <<forecasted_closings, forecasted_revenue>>
    /\ pc' = "tab4"
    /\ UNCHANGED <<error, failed_in, num_leads, num_appointments, num_closings,
                   average_revenue_per_closing, uploaded_file,
                   historical_data, metrics, dashboard, date_range,
                   filtered_data, excel_data, csv, preview>>

(***************************************************************************)
(* Tab 4: export.                                                          *)
(***************************************************************************)
NaN == [nan |-> TRUE]

\* df['month_name'] = df['month'].dt.strftime('%b'): the caller's table
\* gains (or overwrites) the column.
set_month_name(df) ==
    [df EXCEPT
       !.columns = IF \E j \in 1..Len(df.columns) : df.columns[j] = "month_name"
                   THEN df.columns
                   ELSE Append(df.columns, "month_name"),
       !.rows = [i \in 1..Len(df.rows) |->
                   ("month_name" :> strftime_b(df.rows[i].month))
                   @@ df.rows[i]]]

\* groupby(key)[metric].mean(): the mean of the group labelled g, NaN when
\* reindex asks for a label that no group carries.
group_mean(rows, key, g, metric) ==
    LET grp == SelectSeq(rows, LAMBDA r : r[key] = g)
    IN  IF Len(grp) = 0 THEN NaN
        ELSE Frac(SumCol(grp, metric), Len(grp))

\* calculate_seasonal_patterns: the returned series (one value per entry of
\* calendar.month_name[1:]) and the table as the call leaves it.
calculate_seasonal_patterns(df, metric) ==
    LET out == set_month_name(df)
    IN  [ret |-> [m \in 1..12 |->
                    group_mean(out.rows, "month_name", month_name[m], metric)],
         df  |-> out]

\* export_to_excel: the three sheets written and the table as left behind.
export_to_excel(df, forecasts) ==
    LET p1 == calculate_seasonal_patterns(df, "leads")
        p2 == calculate_seasonal_patterns(p1.df, "appointments")
        p3 == calculate_seasonal_patterns(p2.df, "closings")
    IN  [ret |-> ("historical data" :> df)
              @@ ("forecasts" :> forecasts)
              @@ ("seasonal patterns" :>
                    [m \in 1..12 |->
                       ("month" :> month_name[m])
                       @@ ("avg leads" :> p1.ret[m])
                       @@ ("avg appointments" :> p2.ret[m])
                       @@ ("avg closings" :> p3.ret[m])]),
         df  |-> p3.df]

\* DataFrame.to_csv(index=False): a header line and one line per row, the
\* cells in column order.
to_csv(df) ==
    [header |-> df.columns,
     lines  |-> [i \in 1..Len(df.rows) |->
                   [j \in 1..Len(df.columns) |-> df.rows[i][df.columns[j]]]]]

Tab4 ==
    /\ pc = "tab4"
    /\ IF ~empty(historical_data)
       THEN LET forecast_data ==
                    ("Metric" :> <<"Forecasted Closings", "Forecasted Revenue">>)
                    @@ ("Value" :> <<forecasted_closings, forecasted_revenue>>)
                ex == export_to_excel(filtered_data, forecast_data)
            IN  /\ excel_data' = ex.ret
                /\ filtered_data' = ex.df
                /\ csv' = to_csv(historical_data)
                /\ preview' = ex.df
       ELSE UNCHANGED <<excel_data, filtered_data, csv, preview>>
    /\ pc' = "done"
    /\ UNCHANGED <<error, failed_in, num_leads, num_appointments, num_closings,
                   average_revenue_per_closing, uploaded_file,
                   historical_data, metrics, dashboard, date_range,
                   forecasted_closings, forecasted_revenue>>

(***************************************************************************)
(* The next interaction reruns the script from the top in a fresh          *)
(* namespace.                                                              *)
(***************************************************************************)
Rerun ==
    /\ pc \in {"done", "error"}
    /\ pc' = "tab1"
    /\ error' = "none"
    /\ failed_in' = "none"
    /\ num_leads' = 0
    /\ num_appointments' = 0
    /\ num_closings' = 0
    /\ average_revenue_per_closing' = 0
    /\ uploaded_file' = None
    /\ historical_data' = EmptyFrame
    /\ metrics' = NoMetrics
    /\ dashboard' = NoMetrics
    /\ date_range' = NoRange
    /\ filtered_data' = EmptyFrame
    /\ forecasted_closings' = NoValue
    /\ forecasted_revenue' = NoValue
    /\ excel_data' = NoExport
    /\ csv' = NoExport
    /\ preview' = EmptyFrame

Next == Tab1 \/ Tab2 \/ Tab3 \/ Tab4 \/ Rerun

Spec == Init /\ [][Next]_vars

(***************************************************************************)
(* Properties.                                                             *)
(***************************************************************************)
RECURSIVE TotalUpTo(_, _, _)
TotalUpTo(rows, col, n) ==
    IF n = 0 THEN 0 ELSE TotalUpTo(rows, col, n - 1) + rows[n][col]

Total(df, col) == TotalUpTo(df.rows, col, Len(df.rows))

\* The run holds a metrics bundle, computed from MetricsTable.
HasMetrics == pc \in {"tab2", "tab3", "tab4", "done"}
MetricsTable == IF pc = "tab2" THEN historical_data ELSE filtered_data

\* Tab 1, tab 2, tab 3 have run to their end (or, for tab 2, to its failure).
Tab1Done == pc \in {"tab2", "tab3", "tab4", "done"} \/ failed_in = "tab2"
Tab2Ran == pc \in {"tab3", "tab4", "done"} \/ failed_in = "tab2"
HasForecast == pc \in {"tab4", "done"}

UploadedRows == IF uploaded_file = None THEN <<>> ELSE uploaded_file[1]

ManualRecord ==
    [month |-> Now, leads |-> num_leads, appointments |-> num_appointments,
     closings |-> num_closings]

\* C1: for an empty record set, the date filter selecting no record
\* included, the metrics computation raises nothing and returns a bundle
\* whose rate (and cost) fields are all 0.
C1_EmptySetGivesZeroMetrics ==
    (Tab2Ran /\ Len(filtered_data.rows) = 0) =>
        /\ pc # "error"
        /\ ~Raised(calculate_metrics(filtered_data))
        /\ ~Raised(metrics)
        /\ metrics["Lead to Appointment Rate"] = Zero
        /\ metrics["Appointment to Close Rate"] = Zero
        /\ metrics["Overall Close Rate"] = Zero

\* C2: once tab 1 has run, the record set is the rows of the uploaded file
\* of this run in their order (none without a file or with an empty file),
\* followed by exactly one record built from the manual inputs.
C2_RecordSetIsUploadPlusManual ==
    Tab1Done =>
        LET up == UploadedRows
            hd == historical_data
        IN  /\ Len(hd.rows) = Len(up) + 1
            /\ hd.index = [i \in 1..(Len(up) + 1) |-> i - 1]
            /\ \A i \in 1..Len(up) :
                   /\ hd.rows[i].month = to_datetime(up[i].month)
                   /\ hd.rows[i].leads = up[i].leads
                   /\ hd.rows[i].appointments = up[i].appointments
                   /\ hd.rows[i].closings = up[i].closings
            /\ hd.rows[Len(up) + 1] = ManualRecord

\* C2 witness: a run with a two-row upload ends tab 1 with three records.
C2_Witness ==
    /\ pc = "tab2"
    /\ Len(UploadedRows) = 2
    /\ Len(historical_data.rows) = 3
    /\ historical_data.rows[3] = ManualRecord

\* C3: forecasted_closings is max(0, prediction), hence never negative, and
\* forecasted_revenue is forecasted_closings * average_revenue_per_closing,
\* hence never negative either.
C3_ForecastClampedAndRevenue ==
    HasForecast =>
        LET p  == predict(historical_data, num_leads, num_appointments)
            fc == forecasted_closings
            fr == forecasted_revenue
        IN  /\ fc.den > 0 /\ fc.num >= 0
            /\ (p.num > 0 => fc = p)
            /\ (p.num <= 0 => fc.num = 0)
            /\ fr.den > 0 /\ fr.num >= 0
            /\ fr.num * fc.den = fc.num * average_revenue_per_closing * fr.den

\* C3 witness: the fitted model predicts a negative number of closings at
\* the manual inputs and the forecast is 0.
C3_Witness ==
    /\ HasForecast
    /\ predict(historical_data, num_leads, num_appointments).num < 0
    /\ forecasted_closings = Zero
    /\ average_revenue_per_closing > 0

\* C4: with fewer than 2 records the fit is rejected with
\* InsufficientDataError and no forecasted_closings value is produced.
C4_FitNeedsTwoRecords ==
    (HasForecast /\ Len(historical_data.rows) < 2) =>
        /\ error = "InsufficientDataError"
        /\ forecasted_closings = NoValue

\* C5: the 'seasonal patterns' sheet has twelve rows, January..December in
\* order, and the row of every month that has a record in the full record
\* history holds the means of leads, appointments and closings over the
\* records of that month.
C5_SeasonalSheetHoldsMonthlyMeans ==
    pc = "done" =>
        LET sheet == excel_data["seasonal patterns"]
        IN  /\ Len(sheet) = 12
            /\ \A m \in 1..12 :
                 LET recs == SelectSeq(historical_data.rows,
                                       LAMBDA r : Month(r.month.date) = m)
                     of(col) == Frac(TotalUpTo(recs, col, Len(recs)), Len(recs))
                 IN  /\ sheet[m]["month"] = month_name[m]
                     /\ Len(recs) > 0 =>
                          /\ sheet[m]["avg leads"] = of("leads")
                          /\ sheet[m]["avg appointments"] = of("appointments")
                          /\ sheet[m]["avg closings"] = of("closings")

\* C6: the export leaves the tables it is given unchanged, and the preview
\* shows the table that was passed in.
C6_ExportLeavesTablesUnchanged ==
    [][pc = "tab4" =>
          /\ filtered_data' = filtered_data
          /\ historical_data' = historical_data
          /\ preview' = filtered_data]_vars

\* C7: when the uploaded file has rows whose month cannot be parsed, the
\* load skips exactly those rows, the run goes on, and the record set is the
\* kept rows in order followed by the manual record.
C7_BadMonthRowsAreSkipped ==
    (pc # "tab1" /\ uploaded_file # None /\ ~AllParseable(read_file(UploadedRows)))
    =>  LET kept == SelectSeq(UploadedRows, LAMBDA r : Parseable(r.month))
        IN  /\ pc # "error"
            /\ historical_data.rows =
                   [i \in 1..Len(kept) |->
                      [kept[i] EXCEPT !.month = to_datetime(kept[i].month)]]
                   \o <<ManualRecord>>

\* A record whose source has no cost counts as cost 0.
CostOf(r) == IF "cost" \in DOMAIN r THEN r.cost ELSE 0

RECURSIVE TotalCost(_)
TotalCost(rows) ==
    IF rows = <<>> THEN 0 ELSE CostOf(rows[1]) + TotalCost(Tail(rows))

\* C8: the metrics bundle holds the cost per lead, per appointment and per
\* closing, each total_cost / total_X when total_X > 0 and 0 otherwise.
C8_BundleHoldsCostMetrics ==
    HasMetrics =>
        LET T == MetricsTable
            cost == TotalCost(T.rows)
            per(total) == IF total > 0 THEN Frac(cost, total) ELSE Zero
        IN  /\ {"Cost Per Lead", "Cost Per Appointment", "Cost Per Closing"}
                   \subseteq DOMAIN metrics
            /\ metrics["Cost Per Lead"] = per(Total(T, "leads"))
            /\ metrics["Cost Per Appointment"] = per(Total(T, "appointments"))
            /\ metrics["Cost Per Closing"] = per(Total(T, "closings"))

\* C9: on a non-empty record set each rate is numerator / denominator * 100
\* when its denominator is positive and exactly 0 when it is 0, whatever the
\* numerator; the two computations of a run on the same table (the
\* dashboard's and the tab's) give identical bundles.
C9_RatesAndIdempotence ==
    HasMetrics =>
        LET T   == MetricsTable
            TL  == Total(T, "leads")
            TA  == Total(T, "appointments")
            TC  == Total(T, "closings")
            l2a == metrics["Lead to Appointment Rate"]
            a2c == metrics["Appointment to Close Rate"]
            ocr == metrics["Overall Close Rate"]
        IN  /\ l2a.den > 0 /\ a2c.den > 0 /\ ocr.den > 0
            /\ TL > 0 => /\ l2a.num * TL = TA * 100 * l2a.den
                         /\ ocr.num * TL = TC * 100 * ocr.den
            /\ TL = 0 => l2a.num = 0 /\ ocr.num = 0
            /\ TA > 0 => a2c.num * TA = TC * 100 * a2c.den
            /\ TA = 0 => a2c.num = 0
            /\ metrics["Total Leads"] = TL
            /\ metrics["Total Appointments"] = TA
            /\ metrics["Total Closings"] = TC
            /\ dashboard = metrics

\* C9 witness: a filtered table with closings but no appointments, so the
\* appointment-to-close rate is 0 beside a positive overall close rate.
C9_Witness ==
    /\ pc = "tab3"
    /\ Total(filtered_data, "appointments") = 0
    /\ Total(filtered_data, "closings") > 0
    /\ metrics["Appointment to Close Rate"] = Zero
    /\ metrics["Overall Close Rate"].num > 0
    /\ metrics["Overall Close Rate"].den > 1

\* C10: on a non-empty record set (a date-filtered one included) best_month
\* is the month label of the first record with the maximal closings,
\* worst_month that of the first record with the minimal closings; with one
\* record the two agree.
C10_BestWorstFirstOccurrence ==
    HasMetrics =>
        LET r == MetricsTable.rows
            n == Len(r)
        IN  /\ \E i \in 1..n :
                 /\ \A j \in 1..n : r[j].closings <= r[i].closings
                 /\ \A j \in 1..(i - 1) : r[j].closings < r[i].closings
                 /\ metrics["Best Month (Closings)"] = strftime_b_y(r[i].month)
            /\ \E i \in 1..n :
                 /\ \A j \in 1..n : r[j].closings >= r[i].closings
                 /\ \A j \in 1..(i - 1) : r[j].closings > r[i].closings
                 /\ metrics["Worst Month (Closings)"] = strftime_b_y(r[i].month)
            /\ n = 1 => /\ metrics["Best Month (Closings)"] = strftime_b_y(r[1].month)
                        /\ metrics["Worst Month (Closings)"] = strftime_b_y(r[1].month)

\* C10 witness: a date-filtered subset where two records of different months
\* tie for the maximal closings, and best_month is the first one's month.
C10_Witness ==
    /\ pc = "tab3"
    /\ Len(filtered_data.rows) = 2
    /\ Len(historical_data.rows) = 3
    /\ filtered_data.rows[1].closings = filtered_data.rows[2].closings
    /\ filtered_data.rows[1].month # filtered_data.rows[2].month
    /\ metrics["Best Month (Closings)"] = strftime_b_y(filtered_data.rows[1].month)
    /\ metrics["Best Month (Closings)"] # strftime_b_y(filtered_data.rows[2].month)

====
